---- MODULE Spec2Model ----
(***************************************************************************)
(* Token lifecycle of prtls_oauth: OAuthService (get_token,                *)
(* exchange_authorization_code, refresh_access_token,                      *)
(* save_or_update_token) over the OAuthToken table.                        *)
(*                                                                         *)
(* Spec          one caller at a time; every action is a whole service     *)
(*               call.                                                     *)
(* SpecExchange  whole code exchanges over deployments that lack one of    *)
(*               the attributes the exchange needs.                        *)
(* SpecRefresh   concurrent get_token / refresh_access_token calls,        *)
(*               stepping at every query and provider request, beside      *)
(*               whole exchanges.                                          *)
(* SpecConc      every call of every process steps at its queries and      *)
(*               provider requests.                                        *)
(* SpecCalls     one caller followed request by request, revoke_token and  *)
(*               interrupted requests included; SpecCallsFair adds that a  *)
(*               running call takes its next local step.                   *)
(***************************************************************************)
EXTENDS Integers, Sequences, FiniteSets, TLC

\* ------------------------------------------------------------------ values

\* Python None
NULL == "None"

\* seconds subtracted from expires_in in save_or_update_token
ExpiryMargin == 60

\* bound on the number of clock advances
MaxTicks == 1

Users == {"default"}
Providers == {"google"}
AccessTokens == {"AT1", "AT2"}
RefreshTokens == {"RT1", "RT2"}
ExpiresIns == {30, 60, 3600}
Codes == {"", "abc123"}
TickSteps == {1, 3540}

\* Python truthiness of an optional string
Truthy(x) == x /= NULL /\ x /= ""

\* ---------------------------------------------------------- provider config

\* class attributes of the OAuthService subclasses of a deployment
FullConfig ==
  [client_id |-> "id", client_secret |-> "secret",
   base_url |-> "https://provider", auth_endpoint |-> "/auth",
   token_endpoint |-> "/token", revoke_endpoint |-> "/revoke",
   scope |-> "email"]

\* a subclass that leaves OAUTH_CLIENT_SECRET and OAUTH_REVOKE_ENDPOINT at None
NoSecretConfig ==
  [FullConfig EXCEPT !.client_secret = NULL, !.revoke_endpoint = NULL]

Deployments == { [google |-> FullConfig], [google |-> NoSecretConfig] }

\* subclasses that leave one of the attributes of the code exchange at None
ExchangeDeployments ==
  { [google |-> c] :
      c \in { FullConfig,
              [FullConfig EXCEPT !.client_id = NULL],
              [FullConfig EXCEPT !.client_secret = NULL],
              [FullConfig EXCEPT !.token_endpoint = NULL] } }

\* ------------------------------------------------------------- OAuthToken

NoRow ==
  [id |-> 0, user_id |-> NULL, service |-> NULL, access_token |-> NULL,
   refresh_token |-> NULL, expires_at |-> 0, token_type |-> NULL]

\* QuerySet.first(): lowest primary key, None when empty
First(rows) ==
  IF rows = {} THEN NoRow
  ELSE CHOOSE r \in rows : \A q \in rows : r.id <= q.id

\* objects.filter(user_id=..., service=...)
FilterKey(st, user_id, service) ==
  {r \in st : r.user_id = user_id /\ r.service = service}

\* variant: the comparison reversed (expires_at__lt)
FilterValid_Lt(st, user_id, service, t) ==
  {r \in FilterKey(st, user_id, service) : r.expires_at < t}

\* variant: a row expiring exactly now still counts (expires_at__gte)
FilterValid_Gte(st, user_id, service, t) ==
  {r \in FilterKey(st, user_id, service) : r.expires_at >= t}

\* objects.filter(user_id=..., service=..., expires_at__gt=now())
FilterValid(st, user_id, service, t) ==
  {r \in FilterKey(st, user_id, service) : r.expires_at > t}

\* variant: the refresh_token__isnull=False condition left out
FilterRefreshable_Any(st, user_id, service) == FilterKey(st, user_id, service)

\* objects.filter(user_id=..., service=..., refresh_token__isnull=False)
FilterRefreshable(st, user_id, service) ==
  {r \in FilterKey(st, user_id, service) : r.refresh_token /= NULL}

\* AutoField primary key of the next inserted row (rows are never deleted)
NextId(st) == Cardinality(st) + 1

\* the row update_or_create leaves for (user_id, service)
UpsertedRow(st, user_id, service, defaults) ==
  LET old == First(FilterKey(st, user_id, service))
      id == IF old.id = 0 THEN NextId(st) ELSE old.id
  IN [id |-> id, user_id |-> user_id, service |-> service,
      access_token |-> defaults.access_token,
      refresh_token |-> defaults.refresh_token,
      expires_at |-> defaults.expires_at,
      token_type |-> defaults.token_type]

\* variant: a row is inserted whether or not the key has one
update_or_create_Insert(st, user_id, service, defaults) ==
  st \cup {[UpsertedRow(st, user_id, service, defaults) EXCEPT !.id = NextId(st)]}

\* objects.update_or_create(user_id=, service=, defaults=) under
\* unique_together (user_id, service): one atomic statement of the store
update_or_create(st, user_id, service, defaults) ==
  (st \ FilterKey(st, user_id, service))
    \cup {UpsertedRow(st, user_id, service, defaults)}

\* variant: the refresh_token of the call is stored as it comes
PreserveRefresh_Drop(refresh_token, existing_token) == refresh_token

\* "Preserve refresh_token if it's missing in the new response"
PreserveRefresh(refresh_token, existing_token) ==
  IF ~Truthy(refresh_token) /\ existing_token.id /= 0
  THEN existing_token.refresh_token
  ELSE refresh_token

\* variant: no margin subtracted
ExpiresAt_NoMargin(t, expires_in) == t + expires_in

\* now() + timedelta(seconds=expires_in - 60)
ExpiresAt(t, expires_in) == t + (expires_in - ExpiryMargin)

\* the defaults save_or_update_token hands to update_or_create
Defaults(t, access_token, refresh_token, expires_in, token_type) ==
  [access_token |-> access_token,
   refresh_token |-> refresh_token,
   expires_at |-> ExpiresAt(t, expires_in),
   token_type |-> token_type]

\* save_or_update_token run without interruption at time t
save_or_update_token(st, t, user_id, service, access_token, refresh_token, expires_in, token_type) ==
  LET existing_token == First(FilterKey(st, user_id, service))
      d == Defaults(t, access_token,
                    PreserveRefresh(refresh_token, existing_token),
                    expires_in, token_type)
  IN [store |-> update_or_create(st, user_id, service, d),
      row |-> UpsertedRow(st, user_id, service, d)]

\* ------------------------------------------------------- provider responses

NoData ==
  [keys |-> {}, access_token |-> NULL, expires_in |-> 0,
   refresh_token |-> NULL, token_type |-> NULL]

\* response.json() of a token endpoint answer carrying the required fields
FullData ==
  { [keys |-> {"access_token", "expires_in"} \cup rk \cup tk,
     access_token |-> at, expires_in |-> ei,
     refresh_token |-> IF rk = {} THEN NULL ELSE rt,
     token_type |-> IF tk = {} THEN NULL ELSE "MAC"] :
       at \in AccessTokens, ei \in ExpiresIns, rt \in RefreshTokens,
       rk \in {{}, {"refresh_token"}}, tk \in {{}, {"token_type"}} }

\* answers to a refresh request: most providers do not re-issue refresh_token
RefreshData ==
  {d \in FullData : d.refresh_token \in {NULL, "RT2"} /\ d.token_type = NULL}

\* answers lacking access_token or expires_in
PartialData ==
  { [NoData EXCEPT !.keys = {"access_token"}, !.access_token = "AT1"],
    [NoData EXCEPT !.keys = {"expires_in"}, !.expires_in = 3600] }

Answers(datas) ==
  { [status |-> 401, data |-> NoData] }
    \cup { [status |-> 200, data |-> d] : d \in datas \cup PartialData }

\* answers of the token endpoint to grant_type=authorization_code
Responses == Answers(FullData)

\* answers of the token endpoint to grant_type=refresh_token
RefreshResponses == Answers(RefreshData)

NoResponse == [status |-> 0, data |-> NoData]

\* dict.get(key, default)
Get(data, key, default) == IF key \in data.keys THEN data[key] ELSE default

\* ------------------------------------------------------------ call results

Returned(token, row) ==
  [ok |-> TRUE, token |-> token, row |-> row,
   exc |-> NULL, msg |-> NULL, cause |-> NULL]

Raised(exc, msg, cause) ==
  [ok |-> FALSE, token |-> NULL, row |-> NoRow,
   exc |-> exc, msg |-> msg, cause |-> cause]

NoResult == Raised(NULL, NULL, NULL)

CredentialsMissing == "OAuth credentials missing in subclass."
CodeMissing == "Authorization code not provided."
RefreshTokenMissing == "Refresh token missing. Reauthorization required."
UnexpectedFormat == "Unexpected response format"
PleaseReauthorize == "No valid token. Please reauthorize."
FailedToGet == "Failed to get token"
HTTPErrorMsg == "HTTP status error"
ConnectionErrorMsg == "connection error"
RevokeEndpointMissing == "OAuth revoke endpoint not defined in subclass."
ConfigurationMissing == "OAuth configuration missing. Ensure required class variables are set."

\* ------------------------------------------------------------ OAuthService

\* variant: the refresh_token of the refresh answer is stored
refresh_access_token_Rotates(cfg, st, t, cls, token, resp) ==
  IF ~Truthy(cfg[cls].client_id) \/ ~Truthy(cfg[cls].client_secret)
  THEN [store |-> st, calls |-> 0,
        result |-> Raised("RuntimeError", CredentialsMissing, NULL)]
  ELSE IF ~Truthy(token.refresh_token)
  THEN [store |-> st, calls |-> 0,
        result |-> Raised("RuntimeError", RefreshTokenMissing, NULL)]
  ELSE IF resp.status /= 200
  THEN [store |-> st, calls |-> 1,
        result |-> Raised("HTTPError", HTTPErrorMsg, NULL)]
  ELSE IF "access_token" \notin resp.data.keys
            \/ "expires_in" \notin resp.data.keys
  THEN [store |-> st, calls |-> 1,
        result |-> Raised("RuntimeError", UnexpectedFormat, NULL)]
  ELSE LET w == save_or_update_token(st, t, token.user_id, cls,
                  resp.data.access_token,
                  Get(resp.data, "refresh_token", NULL),
                  resp.data.expires_in, "Bearer")
       IN [store |-> w.store, calls |-> 1,
           result |-> Returned(w.row.access_token, w.row)]

\* variant: the request is posted without looking at token.refresh_token
refresh_access_token_Unchecked(cfg, st, t, cls, token, resp) ==
  IF ~Truthy(cfg[cls].client_id) \/ ~Truthy(cfg[cls].client_secret)
  THEN [store |-> st, calls |-> 0,
        result |-> Raised("RuntimeError", CredentialsMissing, NULL)]
  ELSE IF resp.status /= 200
  THEN [store |-> st, calls |-> 1,
        result |-> Raised("HTTPError", HTTPErrorMsg, NULL)]
  ELSE IF "access_token" \notin resp.data.keys
            \/ "expires_in" \notin resp.data.keys
  THEN [store |-> st, calls |-> 1,
        result |-> Raised("RuntimeError", UnexpectedFormat, NULL)]
  ELSE LET w == save_or_update_token(st, t, token.user_id, cls,
                  resp.data.access_token, NULL, resp.data.expires_in, "Bearer")
       IN [store |-> w.store, calls |-> 1,
           result |-> Returned(w.row.access_token, w.row)]

\* refresh_access_token(token) of provider class cls, answered by resp
refresh_access_token(cfg, st, t, cls, token, resp) ==
  IF ~Truthy(cfg[cls].client_id) \/ ~Truthy(cfg[cls].client_secret)
  THEN [store |-> st, calls |-> 0,
        result |-> Raised("RuntimeError", CredentialsMissing, NULL)]
  ELSE IF ~Truthy(token.refresh_token)
  THEN [store |-> st, calls |-> 0,
        result |-> Raised("RuntimeError", RefreshTokenMissing, NULL)]
  ELSE IF resp.status /= 200
  THEN [store |-> st, calls |-> 1,
        result |-> Raised("HTTPError", HTTPErrorMsg, NULL)]
  ELSE IF "access_token" \notin resp.data.keys
            \/ "expires_in" \notin resp.data.keys
  THEN [store |-> st, calls |-> 1,
        result |-> Raised("RuntimeError", UnexpectedFormat, NULL)]
  ELSE LET w == save_or_update_token(st, t, token.user_id, cls,
                  resp.data.access_token, NULL, resp.data.expires_in, "Bearer")
       IN [store |-> w.store, calls |-> 1,
           result |-> Returned(w.row.access_token, w.row)]

\* variant: the token endpoint is not among the checked attributes
exchange_authorization_code_NoEndpointCheck(cfg, st, t, cls, code, user_id, resp) ==
  IF ~Truthy(cfg[cls].client_id) \/ ~Truthy(cfg[cls].client_secret)
  THEN [store |-> st, calls |-> 0,
        result |-> Raised("RuntimeError", CredentialsMissing, NULL)]
  ELSE IF ~Truthy(code)
  THEN [store |-> st, calls |-> 0,
        result |-> Raised("RuntimeError", CodeMissing, NULL)]
  ELSE IF resp.status /= 200
  THEN [store |-> st, calls |-> 1,
        result |-> Raised("HTTPError", HTTPErrorMsg, NULL)]
  ELSE IF "access_token" \notin resp.data.keys
            \/ "expires_in" \notin resp.data.keys
  THEN [store |-> st, calls |-> 1,
        result |-> Raised("RuntimeError", UnexpectedFormat, NULL)]
  ELSE LET w == save_or_update_token(st, t, user_id, cls,
                  resp.data.access_token,
                  Get(resp.data, "refresh_token", NULL),
                  resp.data.expires_in,
                  Get(resp.data, "token_type", "Bearer"))
       IN [store |-> w.store, calls |-> 1,
           result |-> Returned(w.row.access_token, w.row)]

\* exchange_authorization_code(code, user_id) of provider class cls
exchange_authorization_code(cfg, st, t, cls, code, user_id, resp) ==
  IF ~Truthy(cfg[cls].client_id) \/ ~Truthy(cfg[cls].client_secret)
       \/ ~Truthy(cfg[cls].token_endpoint)
  THEN [store |-> st, calls |-> 0,
        result |-> Raised("RuntimeError", CredentialsMissing, NULL)]
  ELSE IF ~Truthy(code)
  THEN [store |-> st, calls |-> 0,
        result |-> Raised("RuntimeError", CodeMissing, NULL)]
  ELSE IF resp.status /= 200
  THEN [store |-> st, calls |-> 1,
        result |-> Raised("HTTPError", HTTPErrorMsg, NULL)]
  ELSE IF "access_token" \notin resp.data.keys
            \/ "expires_in" \notin resp.data.keys
  THEN [store |-> st, calls |-> 1,
        result |-> Raised("RuntimeError", UnexpectedFormat, NULL)]
  ELSE LET w == save_or_update_token(st, t, user_id, cls,
                  resp.data.access_token,
                  Get(resp.data, "refresh_token", NULL),
                  resp.data.expires_in,
                  Get(resp.data, "token_type", "Bearer"))
       IN [store |-> w.store, calls |-> 1,
           result |-> Returned(w.row.access_token, w.row)]

\* status codes of the revoke endpoint
RevokeStatuses == {200, 400}

\* variant: revoking also deletes the rows holding the token
revoke_token_Deletes(cfg, st, cls, access_token, status) ==
  IF ~Truthy(cfg[cls].revoke_endpoint)
  THEN [store |-> st, calls |-> 0,
        result |-> Raised("RuntimeError", RevokeEndpointMissing, NULL)]
  ELSE [store |-> {r \in st : r.access_token /= access_token}, calls |-> 1,
        result |-> Returned(NULL, NoRow)]

\* revoke_token(access_token) of provider class cls: returns None whatever the
\* status, and touches no row
revoke_token(cfg, st, cls, access_token, status) ==
  IF ~Truthy(cfg[cls].revoke_endpoint)
  THEN [store |-> st, calls |-> 0,
        result |-> Raised("RuntimeError", RevokeEndpointMissing, NULL)]
  ELSE [store |-> st, calls |-> 1, result |-> Returned(NULL, NoRow)]

\* get_authorization_url(state) of provider class cls; the URL is not recorded
get_authorization_url(cfg, st, cls) ==
  IF ~Truthy(cfg[cls].client_id) \/ ~Truthy(cfg[cls].base_url)
       \/ ~Truthy(cfg[cls].auth_endpoint) \/ ~Truthy(cfg[cls].scope)
  THEN [store |-> st, calls |-> 0,
        result |-> Raised("RuntimeError", ConfigurationMissing, NULL)]
  ELSE [store |-> st, calls |-> 0, result |-> Returned(NULL, NoRow)]

\* first query of get_token: a row of the key that has not expired
ValidToken(st, t, cls, user_id) == First(FilterValid(st, user_id, cls, t))

\* second query of get_token: a row of the key with a refresh token
RefreshableToken(st, cls, user_id) == First(FilterRefreshable(st, user_id, cls))

\* variant: the refreshed row is ignored and reauthorization is requested
AfterRefresh_Ignored(r) ==
  [store |-> r.store, calls |-> r.calls,
   result |-> Raised("RuntimeError", FailedToGet,
                     IF r.result.ok THEN PleaseReauthorize ELSE r.result.msg)]

\* what get_token makes of the return or exception of refresh_access_token
AfterRefresh(r) ==
  IF r.result.ok
  THEN IF r.result.row.id /= 0 /\ Truthy(r.result.row.access_token)
       THEN [store |-> r.store, calls |-> r.calls,
             result |-> Returned(r.result.row.access_token, NoRow)]
       ELSE [store |-> r.store, calls |-> r.calls,
             result |-> Raised("RuntimeError", FailedToGet, PleaseReauthorize)]
  ELSE [store |-> r.store, calls |-> r.calls,
        result |-> Raised("RuntimeError", FailedToGet, r.result.msg)]

\* get_token(user_id) of provider class cls
get_token(cfg, st, t, cls, user_id, resp) ==
  LET valid == ValidToken(st, t, cls, user_id)
      token == RefreshableToken(st, cls, user_id)
  IN IF valid.id /= 0
     THEN [store |-> st, calls |-> 0,
           result |-> Returned(valid.access_token, NoRow)]
     ELSE IF token.id /= 0
     THEN AfterRefresh(refresh_access_token(cfg, st, t, cls, token, resp))
     ELSE [store |-> st, calls |-> 0,
           result |-> Raised("RuntimeError", FailedToGet, PleaseReauthorize)]

\* ---------------------------------------------------------------- logging

\* the strings of a response.json() as an f-string prints them
Printed(data) ==
  {data[k] : k \in data.keys \cap {"access_token", "refresh_token", "token_type"}}

\* strings written in full to the log by exchange_authorization_code:
\* the payload before the request, the whole answer after it
ExchangeLog(cfg, cls, code, user_id, resp, r) ==
  {cls}
    \cup (IF r.calls = 1
          THEN {"authorization_code", cfg[cls].client_id,
                cfg[cls].client_secret, code}
          ELSE {})
    \cup (IF r.calls = 1 /\ resp.status = 200 THEN Printed(resp.data) ELSE {})
    \cup (IF r.result.ok THEN {user_id} ELSE {})

\* strings written in full to the log by get_token: the exception of a
\* refresh that got an incomplete answer carries the whole answer
GetTokenLog(cls, user_id, resp, r) ==
  {cls, user_id}
    \cup (IF ~r.result.ok /\ r.result.cause = UnexpectedFormat
          THEN Printed(resp.data) ELSE {})

\* strings written in full to the log by the admin action around
\* refresh_access_token
RefreshLog(cls, token, resp, r) ==
  IF r.result.ok THEN {cls, token.user_id}
  ELSE {token.service, token.user_id}
         \cup (IF r.result.msg = UnexpectedFormat THEN Printed(resp.data) ELSE {})

\* strings written in full to the log by save_or_update_token
UpsertLog(user_id, service) == {service, user_id}

\* ------------------------------------------------------------------- state

VARIABLES
  config,   \* provider class attributes of the deployment
  store,    \* rows of the OAuthToken table
  now,      \* django.utils.timezone.now()
  ticks,    \* clock advances so far
  last,     \* the call made by the latest step: arguments, answer, outcome
  pc,       \* where each concurrent caller stands in its call
  loc       \* the local variables of each concurrent caller

vars == <<config, store, now, ticks, last, pc, loc>>

\* the concurrent callers
Procs == {"p1", "p2"}

\* locals of a call: arguments, the token handed to refresh_access_token,
\* the arguments of save_or_update_token and its refresh_token after line 258
NoLoc ==
  [op |-> "none", cls |-> NULL, user_id |-> NULL, token_refresh |-> NULL,
   access_token |-> NULL, refresh_arg |-> NULL, refresh_token |-> NULL,
   expires_in |-> 0, token_type |-> NULL]

\* log: the strings a whole call wrote in full to the log
NoCall ==
  [op |-> "none", cls |-> NULL, user_id |-> NULL, code |-> NULL,
   token |-> NoRow, args |-> NoData, resp |-> NoResponse,
   calls |-> 0, result |-> NoResult, log |-> {}]

Init ==
  /\ config \in Deployments
  /\ store = {}
  /\ now = 0
  /\ ticks = 0
  /\ last = NoCall
  /\ pc = [p \in Procs |-> "idle"]
  /\ loc = [p \in Procs |-> NoLoc]

\* time passes between two calls
Tick ==
  /\ ticks < MaxTicks
  /\ \E d \in TickSteps : now' = now + d
  /\ ticks' = ticks + 1
  /\ last' = NoCall
  /\ UNCHANGED <<config, store, pc, loc>>

\* the provider answers only when the call posts a request
Answered(r, responses) == IF r.calls = 0 THEN {NoResponse} ELSE responses

\* a caller runs cls.exchange_authorization_code(code, user_id)
ExchangeCode ==
  \E cls \in Providers, user_id \in Users, code \in Codes :
    \E resp \in Answered(exchange_authorization_code(config, store, now, cls,
                           code, user_id, NoResponse), Responses) :
      LET r == exchange_authorization_code(config, store, now, cls, code, user_id, resp)
      IN /\ store' = r.store
         /\ last' = [NoCall EXCEPT !.op = "exchange", !.cls = cls,
                       !.user_id = user_id, !.code = code, !.resp = resp,
                       !.calls = r.calls, !.result = r.result,
                       !.log = ExchangeLog(config, cls, code, user_id, resp, r)]
         /\ UNCHANGED <<config, now, ticks, pc, loc>>

\* a caller runs cls.get_token(user_id)
GetAccessToken ==
  \E cls \in Providers, user_id \in Users :
    \E resp \in Answered(get_token(config, store, now, cls, user_id, NoResponse),
                         RefreshResponses) :
      LET r == get_token(config, store, now, cls, user_id, resp)
      IN /\ store' = r.store
         /\ last' = [NoCall EXCEPT !.op = "get_token", !.cls = cls,
                       !.user_id = user_id, !.resp = resp,
                       !.calls = r.calls, !.result = r.result,
                       !.log = GetTokenLog(cls, user_id, resp, r)]
         /\ UNCHANGED <<config, now, ticks, pc, loc>>

\* the admin action runs cls.refresh_access_token(token) on a selected row
Refresh ==
  \E cls \in Providers, token \in store :
    \E resp \in Answered(refresh_access_token(config, store, now, cls, token,
                           NoResponse), RefreshResponses) :
      LET r == refresh_access_token(config, store, now, cls, token, resp)
      IN /\ store' = r.store
         /\ last' = [NoCall EXCEPT !.op = "refresh", !.cls = cls,
                       !.user_id = token.user_id, !.token = token, !.resp = resp,
                       !.calls = r.calls, !.result = r.result,
                       !.log = RefreshLog(cls, token, resp, r)]
         /\ UNCHANGED <<config, now, ticks, pc, loc>>

\* a caller runs save_or_update_token directly
Upsert ==
  \E user_id \in Users, service \in Providers, d \in FullData :
    LET r == save_or_update_token(store, now, user_id, service,
               d.access_token, Get(d, "refresh_token", NULL), d.expires_in,
               Get(d, "token_type", "Bearer"))
    IN /\ store' = r.store
       /\ last' = [NoCall EXCEPT !.op = "upsert", !.cls = service,
                     !.user_id = user_id, !.args = d,
                     !.result = Returned(r.row.access_token, r.row),
                     !.log = UpsertLog(user_id, service)]
       /\ UNCHANGED <<config, now, ticks, pc, loc>>

\* a caller runs cls.revoke_token(access_token)
RevokeToken ==
  \E cls \in Providers, access_token \in AccessTokens :
    \E status \in (IF revoke_token(config, store, cls, access_token, 0).calls = 0
                   THEN {0} ELSE RevokeStatuses) :
      LET r == revoke_token(config, store, cls, access_token, status)
      IN /\ store' = r.store
         /\ last' = [NoCall EXCEPT !.op = "revoke", !.cls = cls,
                       !.args = [NoData EXCEPT !.access_token = access_token],
                       !.resp = [status |-> status, data |-> NoData],
                       !.calls = r.calls, !.result = r.result]
         /\ UNCHANGED <<config, now, ticks, pc, loc>>

\* a caller runs cls.get_authorization_url()
BuildAuthorizationURL ==
  \E cls \in Providers :
    LET r == get_authorization_url(config, store, cls)
    IN /\ store' = r.store
       /\ last' = [NoCall EXCEPT !.op = "authorization_url", !.cls = cls,
                     !.calls = r.calls, !.result = r.result,
                     !.log = IF r.result.ok THEN {cls} ELSE {}]
       /\ UNCHANGED <<config, now, ticks, pc, loc>>

Next ==
  \/ Tick \/ ExchangeCode \/ GetAccessToken \/ Refresh \/ Upsert
  \/ RevokeToken \/ BuildAuthorizationURL

Spec == Init /\ [][Next]_vars

\* ------------------------------------------- code exchange and its settings

InitExchange ==
  /\ config \in ExchangeDeployments
  /\ store = {}
  /\ now = 0
  /\ ticks = 0
  /\ last = NoCall
  /\ pc = [p \in Procs |-> "idle"]
  /\ loc = [p \in Procs |-> NoLoc]

NextExchange == Tick \/ ExchangeCode

SpecExchange == InitExchange /\ [][NextExchange]_vars

\* ------------------------------------------------------ concurrent callers

\* token endpoint answers used with concurrent callers
ConcData == {d \in FullData : d.token_type = NULL /\ d.expires_in \in {60, 3600}}
ConcResponses == Answers(ConcData)
ConcRefreshResponses == Answers(ConcData \cap RefreshData)

\* the call of p, with locals l, ends with result res
Finish(p, l, res) ==
  /\ pc' = [pc EXCEPT ![p] = "idle"]
  /\ loc' = [loc EXCEPT ![p] = NoLoc]
  /\ last' = [NoCall EXCEPT !.op = l.op, !.cls = l.cls, !.user_id = l.user_id,
                !.result = res]

\* p goes on to label with locals l
Goto(p, label, l) ==
  /\ pc' = [pc EXCEPT ![p] = label]
  /\ loc' = [loc EXCEPT ![p] = l]
  /\ last' = NoCall

\* an exception of refresh_access_token reaches the caller of p, through the
\* except clause of get_token when get_token made the call
RaiseFromRefresh(p, err) ==
  Finish(p, loc[p],
         IF loc[p].op = "get_token"
         THEN AfterRefresh([store |-> store, calls |-> 1, result |-> err]).result
         ELSE err)

\* p enters save_or_update_token
EnterSave(p, l, access_token, refresh_token, expires_in, token_type) ==
  Goto(p, "save_read",
       [l EXCEPT !.access_token = access_token,
                 !.refresh_arg = refresh_token,
                 !.refresh_token = refresh_token,
                 !.expires_in = expires_in,
                 !.token_type = token_type])

\* get_token, first query: a valid row is returned at once
GetValid(p) ==
  /\ pc[p] = "idle"
  /\ \E cls \in Providers, user_id \in Users :
       LET valid == ValidToken(store, now, cls, user_id)
              l == [NoLoc EXCEPT !.op = "get_token", !.cls = cls,
                                 !.user_id = user_id]
       IN IF valid.id /= 0
          THEN Finish(p, l, Returned(valid.access_token, NoRow))
          ELSE Goto(p, "second_query", l)
  /\ UNCHANGED <<config, store, now, ticks>>

\* the checks of refresh_access_token before its request, for p at l
StartRefresh(p, l, token) ==
  LET r == refresh_access_token(config, store, now, l.cls, token, NoResponse)
  IN IF r.calls = 0
     THEN Finish(p, l, IF l.op = "get_token" THEN AfterRefresh(r).result
                       ELSE r.result)
     ELSE Goto(p, "refresh_post",
               [l EXCEPT !.user_id = token.user_id,
                         !.token_refresh = token.refresh_token])

\* get_token, second query: a row with a refresh token goes to
\* refresh_access_token
GetRefreshable(p) ==
  /\ pc[p] = "second_query"
  /\ LET token == RefreshableToken(store, loc[p].cls, loc[p].user_id)
     IN IF token.id /= 0
        THEN StartRefresh(p, loc[p], token)
        ELSE Finish(p, loc[p],
                    Raised("RuntimeError", FailedToGet, PleaseReauthorize))
  /\ UNCHANGED <<config, store, now, ticks>>

\* the admin action starts cls.refresh_access_token(token) on a selected row
RefreshStart(p) ==
  /\ pc[p] = "idle"
  /\ \E cls \in Providers, token \in store :
       StartRefresh(p, [NoLoc EXCEPT !.op = "refresh", !.cls = cls], token)
  /\ UNCHANGED <<config, store, now, ticks>>

\* the token endpoint answers the refresh request of p
RefreshResponse(p) ==
  /\ pc[p] = "refresh_post"
  /\ \E resp \in ConcRefreshResponses :
       IF resp.status /= 200
       THEN RaiseFromRefresh(p, Raised("HTTPError", HTTPErrorMsg, NULL))
       ELSE IF "access_token" \notin resp.data.keys
                 \/ "expires_in" \notin resp.data.keys
       THEN RaiseFromRefresh(p, Raised("RuntimeError", UnexpectedFormat, NULL))
       ELSE EnterSave(p, loc[p], resp.data.access_token, NULL,
                      resp.data.expires_in, "Bearer")
  /\ UNCHANGED <<config, store, now, ticks>>

\* exchange_authorization_code up to its request
ExchangeStart(p) ==
  /\ pc[p] = "idle"
  /\ \E cls \in Providers, user_id \in Users, code \in Codes :
       LET r == exchange_authorization_code(config, store, now, cls, code,
                                            user_id, NoResponse)
           l == [NoLoc EXCEPT !.op = "exchange", !.cls = cls,
                              !.user_id = user_id]
       IN IF r.calls = 0
          THEN Finish(p, l, r.result)
          ELSE Goto(p, "exchange_post", l)
  /\ UNCHANGED <<config, store, now, ticks>>

\* variant: the answer is written to the table before it is validated
ExchangeResponse_WritesEarly(p) ==
  /\ pc[p] = "exchange_post"
  /\ \E resp \in ConcResponses :
       IF resp.status /= 200
       THEN /\ Finish(p, loc[p], Raised("HTTPError", HTTPErrorMsg, NULL))
            /\ store' = store
       ELSE /\ store' = update_or_create(store, loc[p].user_id, loc[p].cls,
                          Defaults(now, resp.data.access_token,
                                   resp.data.refresh_token,
                                   resp.data.expires_in, "Bearer"))
            /\ IF "access_token" \notin resp.data.keys
                    \/ "expires_in" \notin resp.data.keys
               THEN Finish(p, loc[p],
                           Raised("RuntimeError", UnexpectedFormat, NULL))
               ELSE EnterSave(p, loc[p], resp.data.access_token,
                              Get(resp.data, "refresh_token", NULL),
                              resp.data.expires_in,
                              Get(resp.data, "token_type", "Bearer"))
  /\ UNCHANGED <<config, now, ticks>>

\* the token endpoint answers the exchange request of p
ExchangeResponse(p) ==
  /\ pc[p] = "exchange_post"
  /\ \E resp \in ConcResponses :
       IF resp.status /= 200
       THEN Finish(p, loc[p], Raised("HTTPError", HTTPErrorMsg, NULL))
       ELSE IF "access_token" \notin resp.data.keys
                 \/ "expires_in" \notin resp.data.keys
       THEN Finish(p, loc[p], Raised("RuntimeError", UnexpectedFormat, NULL))
       ELSE EnterSave(p, loc[p], resp.data.access_token,
                      Get(resp.data, "refresh_token", NULL),
                      resp.data.expires_in,
                      Get(resp.data, "token_type", "Bearer"))
  /\ UNCHANGED <<config, store, now, ticks>>

\* a caller enters save_or_update_token directly
UpsertStart(p) ==
  /\ pc[p] = "idle"
  /\ \E user_id \in Users, service \in Providers, d \in ConcData :
       EnterSave(p, [NoLoc EXCEPT !.op = "upsert", !.cls = service,
                                  !.user_id = user_id],
                 d.access_token, Get(d, "refresh_token", NULL),
                 d.expires_in, Get(d, "token_type", "Bearer"))
  /\ UNCHANGED <<config, store, now, ticks>>

\* save_or_update_token, the query for existing_token and the preservation
\* of its refresh_token
SaveRead(p) ==
  /\ pc[p] = "save_read"
  /\ LET existing_token == First(FilterKey(store, loc[p].user_id, loc[p].cls))
     IN Goto(p, "save_write",
             [loc[p] EXCEPT !.refresh_token =
                PreserveRefresh(loc[p].refresh_arg, existing_token)])
  /\ UNCHANGED <<config, store, now, ticks>>

\* save_or_update_token, update_or_create and the return to the caller
SaveWrite(p) ==
  /\ pc[p] = "save_write"
  /\ LET l == loc[p]
         d == Defaults(now, l.access_token, l.refresh_token, l.expires_in,
                       l.token_type)
         row == UpsertedRow(store, l.user_id, l.cls, d)
         ret == [store |-> store, calls |-> 1,
                 result |-> Returned(row.access_token, row)]
     IN /\ store' = update_or_create(store, l.user_id, l.cls, d)
        /\ Finish(p, l, IF l.op = "get_token" THEN AfterRefresh(ret).result
                         ELSE ret.result)
  /\ UNCHANGED <<config, now, ticks>>

\* a whole exchange beside the concurrent refreshes
ExchangeWhole ==
  \E cls \in Providers, user_id \in Users, resp \in ConcResponses :
    LET r == exchange_authorization_code(config, store, now, cls, "abc123",
                                         user_id, resp)
    IN /\ r.result.ok
       /\ store' = r.store
       /\ last' = [NoCall EXCEPT !.op = "exchange", !.cls = cls,
                     !.user_id = user_id, !.code = "abc123", !.resp = resp,
                     !.calls = r.calls, !.result = r.result]
       /\ UNCHANGED <<config, now, ticks, pc, loc>>

RefreshSteps(p) ==
  \/ GetValid(p) \/ GetRefreshable(p) \/ RefreshStart(p)
  \/ RefreshResponse(p) \/ SaveRead(p) \/ SaveWrite(p)

NextRefresh ==
  \/ ExchangeWhole
  \/ \E p \in Procs : RefreshSteps(p)

SpecRefresh == Init /\ [][NextRefresh]_vars

NextConc ==
  \/ \E p \in Procs :
       \/ RefreshSteps(p)
       \/ ExchangeStart(p) \/ ExchangeResponse(p) \/ UpsertStart(p)

SpecConc == Init /\ [][NextConc]_vars

\* -------------------------------------------- one caller and its requests

\* revoke_token up to its request
RevokeStart(p) ==
  /\ pc[p] = "idle"
  /\ \E cls \in Providers, access_token \in AccessTokens :
       LET r == revoke_token(config, store, cls, access_token, 0)
           l == [NoLoc EXCEPT !.op = "revoke", !.cls = cls,
                              !.access_token = access_token]
       IN IF r.calls = 0
          THEN Finish(p, l, r.result)
          ELSE Goto(p, "revoke_post", l)
  /\ UNCHANGED <<config, store, now, ticks>>

\* the revoke endpoint answers the request of p
RevokeResponse(p) ==
  /\ pc[p] = "revoke_post"
  /\ \E status \in RevokeStatuses :
       LET r == revoke_token(config, store, loc[p].cls, loc[p].access_token,
                             status)
       IN store' = r.store /\ Finish(p, loc[p], r.result)
  /\ UNCHANGED <<config, now, ticks>>

\* requests.post of p raises instead of returning: the connection fails or
\* the caller is interrupted while the request is in flight
RequestInterrupted(p) ==
  /\ pc[p] \in {"exchange_post", "refresh_post", "revoke_post"}
  /\ LET err == Raised("ConnectionError", ConnectionErrorMsg, NULL)
     IN IF pc[p] = "refresh_post"
        THEN RaiseFromRefresh(p, err)
        ELSE Finish(p, loc[p], err)
  /\ UNCHANGED <<config, store, now, ticks>>

\* the caller whose calls are followed request by request
Callers == {"p1"}

\* the steps a call takes by itself, between its requests
LocalSteps(p) == GetRefreshable(p) \/ SaveRead(p) \/ SaveWrite(p)

NextCalls ==
  \E p \in Callers :
    \/ GetValid(p) \/ RefreshStart(p) \/ ExchangeStart(p) \/ UpsertStart(p)
    \/ RevokeStart(p)
    \/ LocalSteps(p)
    \/ RefreshResponse(p) \/ ExchangeResponse(p) \/ RevokeResponse(p)
    \/ RequestInterrupted(p)

SpecCalls == Init /\ [][NextCalls]_vars

\* a call that is running takes its next local step; nothing makes the
\* provider answer and requests.post is given no timeout
SpecCallsFair ==
  /\ Init
  /\ [][NextCalls]_vars
  /\ \A p \in Callers : WF_vars(LocalSteps(p))

\* ------------------------------------------------- several keys, the admin

\* the (user_id, service) pairs that rows are written under; "Google" is a
\* service string that no class has as its OAUTH_PROVIDER_NAME
Keys == {<<"default", "google">>, <<"alice", "google">>, <<"default", "Google">>}

\* settings.OAUTH_PROVIDERS: registry key to service class, a class standing
\* for its OAUTH_PROVIDER_NAME
OAUTH_PROVIDERS == [google |-> "google"]

\* str.lower()
Lower(s) == IF s = "Google" THEN "google" ELSE s

NoServiceFound == "No service found"

\* OAuthTokenAdmin.get_oauth_service(service_name): None when not registered
get_oauth_service(service_name) ==
  IF Lower(service_name) \in DOMAIN OAUTH_PROVIDERS
  THEN OAUTH_PROVIDERS[Lower(service_name)]
  ELSE NULL

\* arguments and answers used with several keys: an expired token with a
\* refresh token, or an unexpired one without
KeyData ==
  {d \in ConcData :
     \/ d.access_token = "AT1" /\ d.refresh_token = "RT1" /\ d.expires_in = 60
     \/ d.access_token = "AT2" /\ d.refresh_token = NULL /\ d.expires_in = 3600}

KeyResponses == Answers(KeyData)
KeyRefreshResponses == Answers({d \in ConcData : d.refresh_token = NULL})

\* a caller runs save_or_update_token directly for one of the keys
KeyUpsert ==
  \E k \in Keys, d \in KeyData :
    LET r == save_or_update_token(store, now, k[1], k[2],
               d.access_token, Get(d, "refresh_token", NULL), d.expires_in,
               Get(d, "token_type", "Bearer"))
    IN /\ store' = r.store
       /\ last' = [NoCall EXCEPT !.op = "upsert", !.cls = k[2],
                     !.user_id = k[1], !.args = d,
                     !.result = Returned(r.row.access_token, r.row),
                     !.log = UpsertLog(k[1], k[2])]
       /\ UNCHANGED <<config, now, ticks, pc, loc>>

\* a caller runs cls.exchange_authorization_code("abc123", user_id)
KeyExchange ==
  \E cls \in Providers, user_id \in {k[1] : k \in Keys} :
    \E resp \in Answered(exchange_authorization_code(config, store, now, cls,
                           "abc123", user_id, NoResponse), KeyResponses) :
      LET r == exchange_authorization_code(config, store, now, cls, "abc123", user_id, resp)
      IN /\ store' = r.store
         /\ last' = [NoCall EXCEPT !.op = "exchange", !.cls = cls,
                       !.user_id = user_id, !.code = "abc123", !.resp = resp,
                       !.calls = r.calls, !.result = r.result,
                       !.log = ExchangeLog(config, cls, "abc123", user_id, resp, r)]
         /\ UNCHANGED <<config, now, ticks, pc, loc>>

\* a caller runs cls.get_token(user_id)
KeyGetToken ==
  \E cls \in Providers, user_id \in {k[1] : k \in Keys} :
    \E resp \in Answered(get_token(config, store, now, cls, user_id, NoResponse),
                         KeyRefreshResponses) :
      LET r == get_token(config, store, now, cls, user_id, resp)
      IN /\ store' = r.store
         /\ last' = [NoCall EXCEPT !.op = "get_token", !.cls = cls,
                       !.user_id = user_id, !.resp = resp,
                       !.calls = r.calls, !.result = r.result,
                       !.log = GetTokenLog(cls, user_id, resp, r)]
         /\ UNCHANGED <<config, now, ticks, pc, loc>>

\* the admin action on a selected row: the class registered for token.service
\* runs refresh_access_token(token)
AdminRefresh ==
  \E token \in store :
    LET cls == get_oauth_service(token.service)
    IN IF cls = NULL
       THEN /\ store' = store
            /\ last' = [NoCall EXCEPT !.op = "refresh",
                          !.user_id = token.user_id, !.token = token,
                          !.result = Raised("RuntimeError", NoServiceFound, NULL),
                          !.log = {token.service, token.user_id}]
            /\ UNCHANGED <<config, now, ticks, pc, loc>>
       ELSE \E resp \in Answered(refresh_access_token(config, store, now, cls,
                                   token, NoResponse), KeyRefreshResponses) :
              LET r == refresh_access_token(config, store, now, cls, token, resp)
              IN /\ store' = r.store
                 /\ last' = [NoCall EXCEPT !.op = "refresh", !.cls = cls,
                               !.user_id = token.user_id, !.token = token,
                               !.resp = resp,
                               !.calls = r.calls, !.result = r.result,
                               !.log = RefreshLog(cls, token, resp, r)]
                 /\ UNCHANGED <<config, now, ticks, pc, loc>>

NextKeys == KeyUpsert \/ KeyExchange \/ KeyGetToken \/ AdminRefresh

SpecKeys == Init /\ [][NextKeys]_vars

TypeOK ==
  /\ config \in Deployments \cup ExchangeDeployments
  /\ now \in Nat
  /\ ticks \in 0..MaxTicks

\* ------------------------------------------------ vocabulary of the claims

\* the latest step wrote the row of (call.user_id, call.cls)
Wrote(call) ==
  /\ call.result.ok
  /\ \/ call.op \in {"upsert", "exchange", "refresh"}
     \/ call.op = "get_token" /\ call.calls = 1

\* the fields the write was given
WrittenData(call) == IF call.op = "upsert" THEN call.args ELSE call.resp.data

\* the refresh_token argument of the write
WrittenRefresh(call) ==
  IF call.op \in {"refresh", "get_token"} THEN NULL
  ELSE Get(WrittenData(call), "refresh_token", NULL)

\* the refresh attempt received a complete answer
RefreshAnswered(call) ==
  /\ call.calls = 1
  /\ call.resp.status = 200
  /\ {"access_token", "expires_in"} \subseteq call.resp.data.keys

\* the rows stored for a key
RowsOf(st, user_id, service) ==
  {r \in st : r.user_id = user_id /\ r.service = service}

Configured(cfg, cls) ==
  Truthy(cfg[cls].client_id) /\ Truthy(cfg[cls].client_secret)

\* ------------------------------------------------------------------ claims

\* p commits its update_or_create in this step
Commits(p) == pc[p] = "save_write" /\ pc'[p] = "idle"

\* C1: the table never holds two rows with the same (user_id, service), and a
\* write on a key that has a row changes that row to the fields of the write
\* without adding a row.
C1_OneRowPerKey ==
  /\ [](\A r, q \in store :
          (r.user_id = q.user_id /\ r.service = q.service) => r = q)
  /\ [][\A p \in Procs :
          (Commits(p) /\ RowsOf(store, loc[p].user_id, loc[p].cls) /= {})
          => /\ Cardinality(store') = Cardinality(store)
             /\ \A q \in RowsOf(store', loc[p].user_id, loc[p].cls) :
                  /\ q.access_token = loc[p].access_token
                  /\ q.token_type = loc[p].token_type
                  /\ loc[p].refresh_arg /= NULL
                       => q.refresh_token = loc[p].refresh_arg]_vars

\* an exchange has rewritten the row while another caller, who read that row
\* before, is about to write it too
C1_Witness ==
  /\ last.op = "exchange" /\ last.result.ok
  /\ \E r \in store : r.id = 1 /\ r.refresh_token = "RT2"
  /\ \E p \in Procs : /\ pc[p] = "save_write"
                       /\ loc[p].refresh_arg = NULL
                       /\ loc[p].refresh_token = "RT1"

\* C3: while refreshes of one key run concurrently, a row that has a
\* refresh_token keeps having one.
C3_RefreshKeepsRefreshToken ==
  [][\A r \in store : r.refresh_token /= NULL =>
       \E q \in store' : /\ q.user_id = r.user_id /\ q.service = r.service
                          /\ q.refresh_token /= NULL]_vars

\* one refresh has written the row while another one, past its own read of
\* the row, is about to write it
C3_Witness ==
  /\ last.op \in {"get_token", "refresh"} /\ last.result.ok
  /\ \E r \in store : r.refresh_token /= NULL
  /\ \E p \in Procs : /\ pc[p] = "save_write"
                       /\ loc[p].op \in {"get_token", "refresh"}

\* C4 as stated: every upsert takes effect as one step at its commit, so the
\* refresh_token it writes is the one save_or_update_token would compute from
\* the row as it is at that moment.
C4_Linearized ==
  [][\A p \in Procs :
       Commits(p) =>
         store' = save_or_update_token(store, now, loc[p].user_id, loc[p].cls,
                    loc[p].access_token, loc[p].refresh_arg,
                    loc[p].expires_in, loc[p].token_type).store]_vars

\* C2: a write that carries no refresh_token keeps the stored one, and in a
\* sequence of calls no row loses a non-null refresh_token.
C2_RefreshTokenPreserved ==
  [][\A r \in store : r.refresh_token /= NULL =>
       \E q \in store' :
         /\ q.user_id = r.user_id /\ q.service = r.service
         /\ q.refresh_token /= NULL
         /\ (Wrote(last') /\ WrittenRefresh(last') = NULL
               => q.refresh_token = r.refresh_token)]_vars

\* an upsert without refresh_token has run on a row that had one
C2_Witness ==
  /\ last.op = "upsert"
  /\ "refresh_token" \notin last.args.keys
  /\ last.result.row.refresh_token \in RefreshTokens

\* C5: get_token on a key whose row has expires_at > now returns that row's
\* access_token, posts nothing and writes nothing.
C5_ValidTokenReturned ==
  [][\A r \in store :
       (/\ last'.op = "get_token"
        /\ last'.user_id = r.user_id /\ last'.cls = r.service
        /\ r.expires_at > now)
       => /\ last'.result.ok
          /\ last'.result.token = r.access_token
          /\ last'.calls = 0
          /\ store' = store]_vars

\* get_token has answered from a stored row, after time has passed
C5_Witness ==
  /\ last.op = "get_token" /\ last.result.ok /\ last.calls = 0
  /\ now > 0
  /\ \E r \in store : r.access_token = last.result.token /\ r.expires_at > now

\* the key of a get_token call has an expired row that carries a refresh token
ExpiredRefreshable(st, t, cls, user_id) ==
  /\ \A r \in RowsOf(st, user_id, cls) : r.expires_at <= t
  /\ \E r \in RowsOf(st, user_id, cls) : r.refresh_token /= NULL

\* C6 as stated: an expired row with a refresh_token makes get_token post
\* exactly one refresh request.
C6_Original ==
  [][(last'.op = "get_token"
        /\ ExpiredRefreshable(store, now, last'.cls, last'.user_id))
       => last'.calls = 1]_vars

\* C6 amended: with client id and secret configured, get_token on an expired
\* row with a refresh_token posts exactly one refresh request and returns
\* the access_token of a complete answer; without them it posts none.
C6_OneRefresh ==
  [][(last'.op = "get_token"
        /\ ExpiredRefreshable(store, now, last'.cls, last'.user_id))
       => /\ last'.calls = IF Configured(config, last'.cls) THEN 1 ELSE 0
          /\ RefreshAnswered(last') =>
                /\ last'.result.ok
                /\ last'.result.token = last'.resp.data.access_token]_vars

\* get_token has refreshed an expired row and returned the new token
C6_Witness ==
  /\ last.op = "get_token" /\ last.calls = 1 /\ last.result.ok
  /\ last.result.token = last.resp.data.access_token

\* C7: with no unexpired row and no row with a refresh_token for the key,
\* get_token raises the reauthorization error, posts nothing and leaves the
\* table unchanged.
C7_ReauthorizationRequired ==
  [][(/\ last'.op = "get_token"
      /\ \A r \in RowsOf(store, last'.user_id, last'.cls) :
           r.expires_at <= now /\ r.refresh_token = NULL)
       => /\ ~last'.result.ok
          /\ last'.result.cause = PleaseReauthorize
          /\ last'.result.cause \notin
               {CredentialsMissing, CodeMissing, RefreshTokenMissing,
                UnexpectedFormat, HTTPErrorMsg}
          /\ last'.calls = 0
          /\ store' = store]_vars

\* get_token has failed on a key whose row is expired and has no refresh token
C7_Witness ==
  /\ last.op = "get_token" /\ ~last.result.ok
  /\ last.result.cause = PleaseReauthorize
  /\ \E r \in store : r.user_id = last.user_id /\ r.service = last.cls
                        /\ r.refresh_token = NULL /\ r.expires_at <= now

\* C8 as stated: a failed refresh inside get_token ends in the
\* reauthorization error, and the row stays as it was.
C8_RefreshFailureReauthorizes ==
  [][(/\ last'.op = "get_token"
      /\ ExpiredRefreshable(store, now, last'.cls, last'.user_id)
      /\ ~RefreshAnswered(last'))
       => /\ ~last'.result.ok
          /\ last'.result.cause = PleaseReauthorize
          /\ store' = store]_vars

\* C9: a token returned by get_token is the access_token of a row of the key
\* with expires_at > now, or the access_token of the refresh answer of this
\* call.
C9_NoStaleToken ==
  [][(last'.op = "get_token" /\ last'.result.ok)
       => \/ /\ last'.calls = 0
             /\ \E r \in RowsOf(store, last'.user_id, last'.cls) :
                   r.expires_at > now /\ r.access_token = last'.result.token
          \/ /\ RefreshAnswered(last')
             /\ last'.result.token = last'.resp.data.access_token]_vars

\* get_token has replaced an expired access token by a different one
C9_Witness ==
  /\ last.op = "get_token" /\ last.result.ok /\ last.calls = 1
  /\ now > 0
  /\ last.result.token = "AT2"

\* C10: every write with expires_in >= 60 stores expires_at = now +
\* expires_in - 60; expires_in = 3600 gives now + 3540.
C10_ExpiryMargin ==
  [][(Wrote(last') /\ WrittenData(last').expires_in >= 60)
       => \A q \in RowsOf(store', last'.user_id, last'.cls) :
            /\ q.expires_at = now + WrittenData(last').expires_in - 60
            /\ WrittenData(last').expires_in = 3600
                 => q.expires_at = now + 3540]_vars

\* an upsert with expires_in = 3600 has run at a later time than 0
C10_Witness ==
  /\ last.op = "upsert" /\ last.args.expires_in = 3600
  /\ now > 0
  /\ last.result.row.expires_at = now + 3540

\* C11 as stated: a write never stores an expires_at earlier than the time of
\* the write; with expires_in < 60 the stored expires_at is that time.
C11_ExpiryClamped ==
  [][Wrote(last')
       => \A q \in RowsOf(store', last'.user_id, last'.cls) :
            /\ q.expires_at >= now
            /\ WrittenData(last').expires_in < 60 => q.expires_at = now]_vars

\* C12: an exchange stores the refresh_token of its answer, and every later
\* successful refresh made by get_token leaves the stored refresh_token as it
\* was, whatever the refresh answer carries, stores the access_token of that
\* answer and returns it.
C12_RefreshTokenStable ==
  /\ [][(last'.op = "exchange" /\ last'.result.ok
           /\ "refresh_token" \in last'.resp.data.keys)
          => \A q \in RowsOf(store', last'.user_id, last'.cls) :
               q.refresh_token = last'.resp.data.refresh_token]_vars
  /\ [][(last'.op = "get_token" /\ last'.calls = 1 /\ last'.result.ok)
          => \A r \in RowsOf(store, last'.user_id, last'.cls) :
               \A q \in RowsOf(store', last'.user_id, last'.cls) :
                 /\ q.refresh_token = r.refresh_token
                 /\ q.access_token = last'.resp.data.access_token
                 /\ last'.result.token = q.access_token]_vars

\* get_token has refreshed a row holding RT1 with an answer that carried
\* another refresh_token
C12_Witness ==
  /\ last.op = "get_token" /\ last.calls = 1 /\ last.result.ok
  /\ "refresh_token" \in last.resp.data.keys
  /\ last.resp.data.refresh_token = "RT2"
  /\ \E q \in RowsOf(store, last.user_id, last.cls) :
       q.refresh_token = "RT1" /\ q.access_token = last.resp.data.access_token

\* the key has no unexpired row and no row with a refresh token
NothingUsable(st, t, user_id, cls) ==
  \A r \in RowsOf(st, user_id, cls) : r.expires_at <= t /\ r.refresh_token = NULL

C14_RefreshRejected ==
  [][last'.op = "refresh"
       => /\ ~Configured(config, last'.cls)
               => /\ ~last'.result.ok
                  /\ last'.result.msg = CredentialsMissing
                  /\ last'.calls = 0
                  /\ store' = store
          /\ (Configured(config, last'.cls) /\ last'.token.refresh_token = NULL)
               => /\ ~last'.result.ok
                  /\ last'.result.msg = RefreshTokenMissing
                  /\ last'.result.msg /= CredentialsMissing
                  /\ last'.calls = 0
                  /\ store' = store]_vars

\* the admin refresh has been refused on a stored row without refresh_token
C14_Witness ==
  /\ last.op = "refresh" /\ ~last.result.ok
  /\ last.result.msg = RefreshTokenMissing
  /\ last.token \in store /\ last.token.refresh_token = NULL

\* one of the attributes exchange_authorization_code needs is not set
ExchangeUnconfigured(cfg, cls) ==
  \/ cfg[cls].client_id = NULL
  \/ cfg[cls].client_secret = NULL
  \/ cfg[cls].token_endpoint = NULL

\* the answer to the exchange request is a failure status or lacks a field
BadAnswer(resp) ==
  resp.status /= 200 \/ ~({"access_token", "expires_in"} \subseteq resp.data.keys)

\* C15: an exchange with client id, client secret or token endpoint missing
\* raises the configuration error; otherwise one with an empty code raises the
\* missing-code error; otherwise one answered by a failure status or an
\* incomplete answer raises a provider-answer error. Each error occurs for its
\* own cause only, and the first two are raised with no request posted.
C15_ExchangeErrors ==
  [][last'.op = "exchange"
       => LET unconfigured == ExchangeUnconfigured(config, last'.cls)
              nocode == ~unconfigured /\ last'.code = ""
              bad == ~unconfigured /\ last'.code /= "" /\ BadAnswer(last'.resp)
              res == last'.result
          IN /\ unconfigured <=> (~res.ok /\ res.msg = CredentialsMissing)
             /\ nocode <=> (~res.ok /\ res.msg = CodeMissing)
             /\ bad <=> (~res.ok /\ res.msg \in {HTTPErrorMsg, UnexpectedFormat})
             /\ (unconfigured \/ nocode) => last'.calls = 0 /\ store' = store
             /\ bad => last'.calls = 1
             /\ Cardinality({CredentialsMissing, CodeMissing, HTTPErrorMsg}) = 3
             /\ Cardinality({CredentialsMissing, CodeMissing, UnexpectedFormat}) = 3]_vars

\* an exchange with a code has been refused for the missing token endpoint
C15_Witness ==
  /\ last.op = "exchange" /\ ~last.result.ok
  /\ last.code = "abc123"
  /\ last.result.msg = CredentialsMissing
  /\ config[last.cls].token_endpoint = NULL

\* C16: no step of a call before its update_or_create changes the table, so a
\* call that ends at its request (failure status, incomplete answer,
\* interrupted request) leaves every row as it was; and a call enters
\* save_or_update_token only from its request, with the access_token and
\* expires_in of a complete answer.
C16_WriteAfterValidation ==
  [][\A p \in Procs :
       /\ (pc[p] /= "save_write" /\ pc'[p] /= pc[p]) => store' = store
       /\ (pc[p] \in {"exchange_post", "refresh_post"} /\ pc'[p] = "idle")
            => ~last'.result.ok /\ store' = store
       /\ (pc[p] /= "save_read" /\ pc'[p] = "save_read"
             /\ loc'[p].op \in {"exchange", "refresh", "get_token"})
            => /\ pc[p] \in {"exchange_post", "refresh_post"}
               /\ loc'[p].access_token \in AccessTokens
               /\ loc'[p].expires_in \in ExpiresIns]_vars

\* an exchange has been interrupted in flight while the table holds a row
C16_Witness ==
  /\ last.op = "exchange" /\ ~last.result.ok
  /\ last.result.exc = "ConnectionError"
  /\ store /= {}
  /\ \A p \in Procs : pc[p] = "idle"

\* C19 as stated: every call that has started comes to an end, also when the
\* provider never answers its request.
C19_CallsComplete ==
  \A p \in Callers : (pc[p] /= "idle") ~> (pc[p] = "idle")

\* C17: no call removes a row: a row that exists keeps existing, under its
\* primary key and its (user_id, service), through every call; and
\* revoke_token leaves the table as it was, whatever the provider answers.
C17_NoDeletion ==
  /\ [][\A r \in store :
          \E q \in store' : /\ q.id = r.id
                             /\ q.user_id = r.user_id
                             /\ q.service = r.service]_vars
  /\ [][last'.op = "revoke" => store' = store]_vars

\* a stored access token has been revoked at the provider, which answered
\* 200, and its row is still in the table
C17_Witness ==
  /\ last.op = "revoke" /\ last.calls = 1 /\ last.resp.status = 200
  /\ \E r \in store : r.access_token = last.args.access_token

\* C18: right after save_or_update_token, the same call with the same
\* arguments at the same time leaves the table exactly as it is: same rows,
\* same access_token, refresh_token, expires_at and token_type.
C18_UpsertIdempotent ==
  /\ [](last.op = "upsert"
          => save_or_update_token(store, now, last.user_id, last.cls,
               last.args.access_token, Get(last.args, "refresh_token", NULL),
               last.args.expires_in,
               Get(last.args, "token_type", "Bearer")).store = store)
  /\ [][(/\ last.op = "upsert" /\ last'.op = "upsert"
         /\ last'.user_id = last.user_id /\ last'.cls = last.cls
         /\ last'.args = last.args)
          => store' = store /\ last'.result = last.result]_vars

\* an upsert without refresh_token, with a token_type of its own, has run at
\* a later time than 0 on a row that holds a refresh_token
C18_Witness ==
  /\ last.op = "upsert" /\ now > 0
  /\ "refresh_token" \notin last.args.keys
  /\ last.args.token_type = "MAC"
  /\ store = {last.result.row}
  /\ last.result.row.refresh_token \in RefreshTokens
  /\ last.result.row.token_type = "MAC"

\* what the spec holds secret: client secrets, access tokens, refresh tokens,
\* authorization codes
Secrets ==
  ({config[cls].client_secret : cls \in Providers} \ {NULL})
    \cup AccessTokens \cup RefreshTokens \cup (Codes \ {""})

\* C20 as stated: no call writes a secret in full to the log.
C20_NoSecretLogged == last.log \cap Secrets = {}

\* C21 as stated: rows are created only by a successful exchange (or a direct
\* save_or_update_token); a successful refresh_access_token(token) creates no
\* row and changes no row but the one of (token.user_id, token.service).
C21_RefreshCreatesNothing ==
  /\ [][Cardinality(store') > Cardinality(store)
          => last'.op \in {"exchange", "upsert"} /\ last'.result.ok]_vars
  /\ [][(last'.op = "refresh" /\ last'.result.ok)
          => /\ Cardinality(store') = Cardinality(store)
             /\ \A q \in store' \ store :
                  /\ q.user_id = last'.token.user_id
                  /\ q.service = last'.token.service]_vars

\* the key a call is made for: the key of the row handed to
\* refresh_access_token, the (user_id, provider) of the other calls
KeyOf(call) ==
  IF call.op = "refresh" THEN <<call.token.user_id, call.token.service>>
  ELSE <<call.user_id, call.cls>>

\* C22 as stated: a call for one key leaves the rows of every other key as
\* they were, and get_token for a key returns only the access_token of an
\* unexpired row of that key, or refreshes only when that key has a row with
\* a refresh token.
C22_KeysIsolated ==
  [][last'.op \in {"upsert", "exchange", "refresh", "get_token"}
       => /\ \A k \in Keys :
               k /= KeyOf(last')
               => RowsOf(store', k[1], k[2]) = RowsOf(store, k[1], k[2])
          /\ (last'.op = "get_token" /\ last'.result.ok /\ last'.calls = 0)
               => \E r \in RowsOf(store, last'.user_id, last'.cls) :
                    r.access_token = last'.result.token /\ r.expires_at > now
          /\ (last'.op = "get_token" /\ last'.calls = 1)
               => \E r \in RowsOf(store, last'.user_id, last'.cls) :
                    r.refresh_token /= NULL]_vars

\* C23 as stated: right after a get_token that succeeded through a refresh,
\* the next get_token for the key returns the same access_token and posts
\* nothing, whatever expires_in the refresh answer carried.
C23_Original ==
  [][(/\ last.op = "get_token" /\ last.calls = 1 /\ last.result.ok
      /\ last'.op = "get_token"
      /\ last'.user_id = last.user_id /\ last'.cls = last.cls)
       => /\ last'.result.ok
          /\ last'.result.token = last.result.token
          /\ last'.calls = 0]_vars

\* C23 amended: the same when the refresh answer carried expires_in > 60;
\* with expires_in <= 60 the row is stored with expires_at <= now and the
\* next get_token posts a refresh request again.
C23_RefreshedTokenReused ==
  [][(/\ last.op = "get_token" /\ last.calls = 1 /\ last.result.ok
      /\ last'.op = "get_token"
      /\ last'.user_id = last.user_id /\ last'.cls = last.cls)
       => IF last.resp.data.expires_in > 60
          THEN /\ last'.result.ok
               /\ last'.result.token = last.result.token
               /\ last'.calls = 0
               /\ store' = store
          ELSE last'.calls = 1]_vars

\* get_token has refreshed, after time has passed, with an answer of
\* expires_in = 3600, and the row it stored is unexpired: the next get_token
\* finds it
C23_Witness ==
  /\ last.op = "get_token" /\ last.calls = 1 /\ last.result.ok
  /\ now > 0
  /\ last.resp.data.expires_in = 3600
  /\ \E r \in RowsOf(store, last.user_id, last.cls) :
       /\ r.access_token = last.result.token
       /\ r.expires_at = now + 3540

====
